---- MODULE Spec2Model ----
(***************************************************************************)
(* SubDomain Sentinel (src/subsentinal.py): the takeover detection engine  *)
(* (TakeoverDetector), the DNS resolver's CNAME walk (DNSResolver) and the *)
(* concurrency controller (SubDomainSentinel.analyze_subdomains).          *)
(*                                                                         *)
(* A hostname is analysed by one pipeline (one analyze_subdomain           *)
(* coroutine).  The code between two awaits runs without interruption on   *)
(* the event loop, so every action below is the code from one suspension   *)
(* point to the next.  What DNS, HTTP and TLS answer is drawn from a       *)
(* "world": a record of the small sets the answers come from.              *)
(***************************************************************************)
EXTENDS Integers, Sequences, FiniteSets, TLC

VARIABLES
    subdomains,        \* SubDomainSentinel.subdomains: the hostnames of this scan
    threads,           \* args.threads
    semaphore,         \* free slots of analyze_subdomains' asyncio.Semaphore
    pc,                \* where each pipeline (bounded_analyze task) stands
    finding,           \* the SubdomainFinding of each pipeline
    loc,               \* the locals of analyze_subdomain / validate_takeover
    wildcard_checked,  \* TakeoverDetector._wildcard_checked
    has_wildcard,      \* TakeoverDetector._has_wildcard
    wildcard_calls,    \* number of DNSResolver.check_wildcard invocations
    completed,         \* completed[0] of analyze_subdomains
    scan,              \* where analyze_subdomains / asyncio.run(main()) stands
    valid_findings,    \* the list analyze_subdomains returns (hostnames of its findings)
    rq,                \* one DNSResolver.resolve_cname call (the CNAME walk)
    rl,                \* one RateLimiter, its clock and the tasks calling wait()
    exit_code,         \* the exit status of the process, once it has exited
    cache,             \* DNSResolver.cache under one key and the calls resolving that key
    tls                \* one TakeoverDetector.check_ssl_mismatch call

vars == <<subdomains, threads, semaphore, pc, finding, loc, wildcard_checked,
          has_wildcard, wildcard_calls, completed, scan, valid_findings, rq, rl, exit_code, cache, tls>>

\* everything but the resolve_cname call
scanVars == <<subdomains, threads, semaphore, pc, finding, loc, wildcard_checked,
              has_wildcard, wildcard_calls, completed, scan, valid_findings, rl, exit_code, cache, tls>>

\* everything but the rate limiter
nonLimiterVars == <<subdomains, threads, semaphore, pc, finding, loc, wildcard_checked,
                    has_wildcard, wildcard_calls, completed, scan, valid_findings, rq, exit_code, cache, tls>>

\* ------------------------------------------------------------------ bounds

MaxChainLen == 2
NumPipelines == 2

\* ----------------------------------------------------------------- helpers

None == "None"
NoStatus == 0

Max(a, b) == IF a >= b THEN a ELSE b
Min(a, b) == IF a <= b THEN a ELSE b

RECURSIVE Repeat(_, _)
Repeat(x, n) == IF n = 0 THEN <<>> ELSE <<x>> \o Repeat(x, n - 1)

RECURSIVE SelectSeqIdx(_, _)
\* the entries of s (in order) that lie in the set keep
SelectSeqIdx(s, keep) ==
    IF s = <<>> THEN <<>>
    ELSE (IF Head(s) \in keep THEN <<Head(s)>> ELSE <<>>) \o SelectSeqIdx(Tail(s), keep)

Range(s) == {s[i] : i \in 1..Len(s)}

\* sequences over S of length 1..n with pairwise distinct entries
DistinctSeqs(S, n) ==
    {s \in UNION {[1..k -> S] : k \in 1..n} : \A i, j \in 1..Len(s) : i # j => s[i] # s[j]}

\* ------------------------------------------------------- provider catalog

\* PROVIDER_CONFIGS restricted to three entries, in declaration order.
ProviderOrder == <<"github", "aws_s3", "cloudflare">>

PROVIDER_CONFIGS ==
    [github     |-> [error_patterns |-> TRUE, claimed_indicators |-> TRUE,
                     status_codes |-> {404, 410}, can_takeover |-> TRUE,
                     takeover_url |-> "https://github.com/settings/pages",
                     verification_method |-> "create_repo"],
     aws_s3     |-> [error_patterns |-> TRUE, claimed_indicators |-> TRUE,
                     status_codes |-> {404, 403, 400}, can_takeover |-> TRUE,
                     takeover_url |-> "https://s3.console.aws.amazon.com",
                     verification_method |-> "create_bucket"],
     cloudflare |-> [error_patterns |-> TRUE, claimed_indicators |-> TRUE,
                     status_codes |-> {404}, can_takeover |-> FALSE,
                     takeover_url |-> "https://dash.cloudflare.com",
                     verification_method |-> "create_worker"]]

\* config.get(...) defaults of validate_takeover, used when the provider is
\* None or (a header-only provider such as "s3") has no catalog entry.
DefaultConfig ==
    [error_patterns |-> FALSE, claimed_indicators |-> FALSE,
     status_codes |-> {404}, can_takeover |-> TRUE,
     takeover_url |-> "provider console", verification_method |-> "resource"]

ConfigOf(provider) ==
    IF provider \in DOMAIN PROVIDER_CONFIGS THEN PROVIDER_CONFIGS[provider] ELSE DefaultConfig

\* The names of the modelled DNS zone: what the resolver answers for an A
\* query of the name, and which provider's cname_patterns occur in it.
ZoneClass ==
    [n \in {"gone.s3.amazonaws.com", "live.s3.amazonaws.com", "live.workers.dev",
            "gone.example.net", "ns1.deadzone.invalid", "ns1.example.net",
            "noanswer.example.net", "timeout.example.net", "lame.example.net",
            "ns1.noanswer.invalid", "ns1.timeout.invalid", "ns1.lame.invalid",
            "site.github.io", "site.github.io.s3.amazonaws.com", "Site.GitHub.IO"} |->
        CASE n = "gone.s3.amazonaws.com" -> "NXDOMAIN"
          [] n = "live.s3.amazonaws.com" -> "EXISTS"
          [] n = "live.workers.dev"      -> "EXISTS"
          [] n = "gone.example.net"      -> "NXDOMAIN"
          [] n = "ns1.deadzone.invalid"  -> "NXDOMAIN"
          [] n = "ns1.example.net"       -> "EXISTS"
          [] n = "noanswer.example.net"  -> "NOANSWER"
          [] n = "timeout.example.net"   -> "TIMEOUT"
          [] n = "lame.example.net"      -> "NO_NAMESERVERS"
          [] n = "ns1.noanswer.invalid"  -> "NOANSWER"
          [] n = "ns1.timeout.invalid"   -> "TIMEOUT"
          [] n = "ns1.lame.invalid"      -> "NO_NAMESERVERS"
          [] n = "site.github.io"        -> "EXISTS"
          [] n = "site.github.io.s3.amazonaws.com" -> "EXISTS"
          [] n = "Site.GitHub.IO"        -> "EXISTS"]

\* str.lower over the names of the zone
Lower(name) == IF name = "Site.GitHub.IO" THEN "site.github.io" ELSE name

\* "pattern in name" for some cname_pattern of the provider: the substring
\* test on the characters as they stand (".github.io" is no substring of
\* "Site.GitHub.IO")
PatternIn(provider, name) ==
    CASE provider = "github"     -> name \in {"site.github.io", "site.github.io.s3.amazonaws.com"}
      [] provider = "aws_s3"     -> name \in {"gone.s3.amazonaws.com", "live.s3.amazonaws.com",
                                              "site.github.io.s3.amazonaws.com"}
      [] provider = "cloudflare" -> name \in {"live.workers.dev"}
      [] OTHER                   -> FALSE

RECURSIVE FirstProvider(_, _)
\* for provider, config in PROVIDER_CONFIGS.items(): first provider with a pattern in name
FirstProvider(order, name) ==
    IF order = <<>> THEN None
    ELSE IF PatternIn(Head(order), Lower(name)) THEN Head(order)
    ELSE FirstProvider(Tail(order), name)

RECURSIVE FirstInChain(_)
FirstInChain(chain) ==
    IF chain = <<>> THEN None
    ELSE IF FirstProvider(ProviderOrder, Head(chain)) # None
         THEN FirstProvider(ProviderOrder, Head(chain))
    ELSE FirstInChain(Tail(chain))

\* a scan in which the provider declared last wins for the cname
IdentifyLastDeclared(cname, chain) ==
    LET hits == {k \in 1..Len(ProviderOrder) : PatternIn(ProviderOrder[k], Lower(cname))}
    IN  IF cname = None THEN None
        ELSE IF hits # {} THEN ProviderOrder[CHOOSE k \in hits : \A j \in hits : j <= k]
        ELSE FirstInChain(chain)

identify_provider(cname, chain) ==
    IF cname = None THEN None
    ELSE IF FirstProvider(ProviderOrder, cname) # None THEN FirstProvider(ProviderOrder, cname)
    ELSE FirstInChain(chain)

\* a classification that takes every failed A query for a missing name
CheckNxdomainOnAnyFailure(cname) == ZoneClass[cname] # "EXISTS"

\* check_cname_nxdomain: the except clauses of the A query, in order
check_cname_nxdomain(cname) ==
    CASE ZoneClass[cname] = "EXISTS"         -> FALSE
      [] ZoneClass[cname] = "NXDOMAIN"       -> TRUE
      [] ZoneClass[cname] = "NOANSWER"       -> FALSE
      [] ZoneClass[cname] = "NO_NAMESERVERS" -> TRUE
      [] OTHER                               -> FALSE

\* check_chain_nxdomain: every link of the chain, the head included
check_chain_nxdomain(cname_chain) ==
    SelectSeqIdx(cname_chain, {n \in Range(cname_chain) : check_cname_nxdomain(n)})

\* check_ns_takeover: the nameservers whose A query is NXDOMAIN or NoNameservers
DeadNs(ns_records) ==
    SelectSeqIdx(ns_records,
                 {n \in Range(ns_records) : ZoneClass[n] \in {"NXDOMAIN", "NO_NAMESERVERS"}})

\* check_dangling_a_record over the modelled kinds of A record sets
check_dangling_a_record(a_records) == a_records = "cloud"

\* ------------------------------------------------------------ HTTP probe

\* HEADER_FINGERPRINTS restricted to three entries, in declaration order; a
\* response's headers are the set of "Name:value-part" facts that hold of it.
HeaderOrder == <<"github", "heroku", "s3">>

HEADER_FINGERPRINTS ==
    [github |-> {"Server:GitHub.com"},
     heroku |-> {"Server:Cowboy", "Via:vegur"},
     s3     |-> {"Server:AmazonS3"}]

RECURSIVE FirstFingerprint(_, _)
FirstFingerprint(order, headers) ==
    IF order = <<>> THEN None
    ELSE IF HEADER_FINGERPRINTS[Head(order)] # {} /\ HEADER_FINGERPRINTS[Head(order)] \subseteq headers
         THEN Head(order)
    ELSE FirstFingerprint(Tail(order), headers)

check_response_headers(headers) ==
    IF headers = {} THEN None ELSE FirstFingerprint(HeaderOrder, headers)

\* One GET of analyze_http that raised (the except branch: nothing recorded).
FailedGet == [ok |-> FALSE, status |-> NoStatus, body |-> "", headers |-> {}]

\* The responses a GET can produce, from the statuses, bodies and header sets given.
Responses(statuses, bodies, headerSets) ==
    {FailedGet} \cup
    {[ok |-> TRUE, status |-> s, body |-> b, headers |-> h] :
        s \in statuses, b \in bodies, h \in headerSets}

NewHttpInfo ==
    [http_status |-> NoStatus, https_status |-> NoStatus, body |-> "",
     is_live |-> FALSE, headers |-> {}]

\* the body of the "for url in urls_to_try" loop for one url
TryUrl(result, scheme, resp) ==
    IF ~resp.ok THEN result
    ELSE [result EXCEPT
            !.http_status  = IF scheme = "http" THEN resp.status ELSE @,
            !.https_status = IF scheme = "https" THEN resp.status ELSE @,
            !.body = resp.body, !.is_live = TRUE, !.headers = resp.headers]

\* analyze_http: http:// then https://, stopping after a response with status < 400
analyze_http(rHttp, rHttps) ==
    LET first == TryUrl(NewHttpInfo, "http", rHttp)
    IN  IF rHttp.ok /\ rHttp.status < 400 THEN first ELSE TryUrl(first, "https", rHttps)

\* "pattern.lower() in response_body" for some pattern of the provider, by the
\* markers the modelled bodies carry
BodyHasError(body) == body \in {"error", "error claimed"}
BodyHasClaimed(body) == body \in {"claimed", "error claimed"}

\* --------------------------------------------------------- validate_takeover

NewValidation ==
    [status |-> "UNLIKELY", confidence |-> 0, evidence |-> <<>>,
     verification_steps |-> <<>>, risk_level |-> "INFO"]

Bump(v, d, tag) == [v EXCEPT !.confidence = @ + d, !.evidence = Append(@, tag)]
Note(v, tag) == [v EXCEPT !.evidence = Append(@, tag)]

\* the NS delegation signal scored like the NXDOMAIN signal
SignalNsAsNxdomain(v, ns_takeover) ==
    IF ns_takeover THEN Bump(v, 40, "V_NS_DELEGATION") ELSE v

\* Signal 0: NS delegation takeover
SignalNs(v, ns_takeover) ==
    IF ns_takeover THEN Bump(v, 50, "V_NS_DELEGATION") ELSE v

\* the early return "No provider identified"
NoProviderReturn(f, ns_takeover) ==
    f.provider = None /\ ~ns_takeover /\ ~f.dangling_a_record

\* Signal 1: NXDOMAIN of the CNAME target
SignalNxdomain(v, f, nxdomain) ==
    IF nxdomain THEN Bump(v, 40, "V_NXDOMAIN")
    ELSE IF f.cname # None THEN Note(v, "V_RESOLVES")
    ELSE v

\* Signal 1b: dangling chain links
SignalChain(v, chain_dangling) ==
    IF chain_dangling # <<>>
    THEN [v EXCEPT !.confidence = @ + Min(35 * Len(chain_dangling), 70),
                   !.evidence = @ \o Repeat("V_CHAIN", Len(chain_dangling))]
    ELSE v

\* Signal 2: DNS configuration (evidence only)
SignalDns(v, f) ==
    LET v1 == IF f.cname # None THEN Note(v, "V_CNAME_POINTS") ELSE v
    IN  IF f.provider # None THEN Note(v1, "V_PROVIDER") ELSE v1

\* status_code = finding.https_status or finding.http_status
BestStatus(f) == IF f.https_status # NoStatus THEN f.https_status ELSE f.http_status

\* Signal 3: HTTP status codes
SignalStatus(v, f, config) ==
    IF BestStatus(f) \in config.status_codes THEN Bump(v, 20, "V_STATUS_EXPECTED")
    ELSE IF BestStatus(f) # NoStatus THEN Note(v, "V_STATUS_UNEXPECTED")
    ELSE v

\* Signal 4: error patterns in the response
SignalError(v, body, config) ==
    IF config.error_patterns /\ BodyHasError(body) THEN Bump(v, 30, "V_ERROR_FOUND")
    ELSE IF config.error_patterns THEN Note(v, "V_NO_ERROR")
    ELSE v

\* Signal 5: claimed indicators
SignalClaimed(v, body, config) ==
    IF config.claimed_indicators /\ BodyHasClaimed(body)
    THEN [v EXCEPT !.confidence = Max(0, @ - 15), !.evidence = Append(@, "V_CLAIMED")]
    ELSE IF config.claimed_indicators THEN Bump(v, 10, "V_NOT_CLAIMED")
    ELSE v

\* signal 6 recorded in the evidence without its contribution
SignalNoHttpEvidenceOnly(v, f, body, nxdomain) ==
    IF ~f.is_live /\ nxdomain THEN Note(v, "V_NO_HTTP_NXDOMAIN")
    ELSE IF f.is_live /\ body # "" THEN Note(v, "V_HTTP_OK")
    ELSE Note(v, "V_NO_HTTP")

\* Signal 6: no HTTP response at all
SignalNoHttp(v, f, body, nxdomain) ==
    IF ~f.is_live /\ nxdomain THEN Bump(v, 10, "V_NO_HTTP_NXDOMAIN")
    ELSE IF f.is_live /\ body # "" THEN Note(v, "V_HTTP_OK")
    ELSE Note(v, "V_NO_HTTP")

\* Signal 7: SSL certificate mismatch
SignalSsl(v, ssl_mismatch) ==
    IF ssl_mismatch THEN Bump(v, 15, "V_SSL_MISMATCH") ELSE v

\* Signal 8: dangling A record
SignalDanglingA(v, f) ==
    IF f.dangling_a_record /\ ~f.is_live THEN Bump(v, 15, "V_DANGLING_A") ELSE v

\* validate_takeover from its first line to the call of check_wildcard_domain
\* (signal 0, then signals 1..8 unless the early return is taken)
ScoreSignals(f, body, nxdomain, ns_takeover, chain_dangling, ssl_mismatch) ==
    LET config == ConfigOf(f.provider)
        v0 == SignalNs(NewValidation, ns_takeover)
        v1 == SignalNxdomain(v0, f, nxdomain)
        v1b == SignalChain(v1, chain_dangling)
        v2 == SignalDns(v1b, f)
        v3 == SignalStatus(v2, f, config)
        v4 == SignalError(v3, body, config)
        v5 == SignalClaimed(v4, body, config)
        v6 == SignalNoHttp(v5, f, body, nxdomain)
        v7 == SignalSsl(v6, ssl_mismatch)
    IN  SignalDanglingA(v7, f)

\* the wildcard penalty without its floor at 0
WildcardSuppressionUnclamped(v, hw) ==
    IF hw THEN [v EXCEPT !.confidence = @ - 20, !.evidence = Append(@, "V_WILDCARD")]
    ELSE v

\* Anti-FP: wildcard suppression
WildcardSuppression(v, hw) ==
    IF hw THEN [v EXCEPT !.confidence = Max(0, @ - 20), !.evidence = Append(@, "V_WILDCARD")]
    ELSE v

\* the can_takeover cap applied whether or not there is an NS delegation signal
CanTakeoverCapIgnoringNs(v, can_claim, ns_takeover) ==
    IF ~can_claim
    THEN [v EXCEPT !.confidence = Min(@, 30),
                   !.evidence = IF v.confidence > 30 THEN Append(@, "V_CAPPED") ELSE @]
    ELSE v

\* Anti-FP: can_takeover check
CanTakeoverCap(v, can_claim, ns_takeover) ==
    IF ~can_claim /\ ~ns_takeover
    THEN [v EXCEPT !.confidence = Min(@, 30),
                   !.evidence = IF v.confidence > 30 THEN Append(@, "V_CAPPED") ELSE @]
    ELSE v

\* the status chain with the HIGHLY_LIKELY threshold made strict (> 60)
DetermineStatusStrict(v, f) ==
    IF v.confidence >= 80 THEN [v EXCEPT !.status = "CONFIRMED", !.risk_level = "CRITICAL"]
    ELSE IF v.confidence > 60 THEN [v EXCEPT !.status = "HIGHLY_LIKELY", !.risk_level = "HIGH"]
    ELSE IF v.confidence >= 40 THEN [v EXCEPT !.status = "LIKELY", !.risk_level = "MEDIUM"]
    ELSE IF v.confidence >= 20 THEN [v EXCEPT !.status = "POSSIBLE", !.risk_level = "LOW"]
    ELSE IF f.provider # None /\ f.cname # None
         THEN [v EXCEPT !.status = "UNLIKELY", !.risk_level = "INFO"]
    ELSE [v EXCEPT !.status = "SAFE"]

\* "Determine final status"
DetermineStatus(v, f) ==
    IF v.confidence >= 80 THEN [v EXCEPT !.status = "CONFIRMED", !.risk_level = "CRITICAL"]
    ELSE IF v.confidence >= 60 THEN [v EXCEPT !.status = "HIGHLY_LIKELY", !.risk_level = "HIGH"]
    ELSE IF v.confidence >= 40 THEN [v EXCEPT !.status = "LIKELY", !.risk_level = "MEDIUM"]
    ELSE IF v.confidence >= 20 THEN [v EXCEPT !.status = "POSSIBLE", !.risk_level = "LOW"]
    ELSE IF f.provider # None /\ f.cname # None
         THEN [v EXCEPT !.status = "UNLIKELY", !.risk_level = "INFO"]
    ELSE [v EXCEPT !.status = "SAFE"]

\* the four steps of a dead-nameserver takeover; a step is the pair of its
\* fixed text and the value formatted into it
NsSteps ==
    <<<<"Register the dead nameserver domain", "">>,
      <<"Set up DNS hosting on the claimed nameserver", "">>,
      <<"Create DNS records for", "subdomain">>,
      <<"Full DNS control achieved", "">>>>

\* the four steps of claiming the provider's resource
ProviderSteps(f, config) ==
    <<<<"Navigate to", config.takeover_url>>,
      <<"Create a new", config.verification_method>>,
      <<"Point it to the CNAME:", f.cname>>,
      <<"Verify you can access content at", "subdomain">>>>

\* the verification steps attached to the verdicts LIKELY and POSSIBLE only
VerificationStepsFromLikelyDown(v, f, ns_takeover) ==
    IF v.status \in {"LIKELY", "POSSIBLE"}
    THEN [v EXCEPT !.verification_steps =
              IF ns_takeover THEN NsSteps ELSE ProviderSteps(f, ConfigOf(f.provider))]
    ELSE v

\* "Add verification steps if potentially vulnerable"
VerificationSteps(v, f, ns_takeover) ==
    IF v.status \in {"CONFIRMED", "HIGHLY_LIKELY", "LIKELY"}
    THEN [v EXCEPT !.verification_steps =
              IF ns_takeover THEN NsSteps ELSE ProviderSteps(f, ConfigOf(f.provider))]
    ELSE v

\* validate_takeover from the return of check_wildcard_domain to its end
FinishValidation(v, f, hw, ns_takeover) ==
    LET w == WildcardSuppression(v, hw)
        c == CanTakeoverCap(w, ConfigOf(f.provider).can_takeover, ns_takeover)
    IN  VerificationSteps(DetermineStatus(c, f), f, ns_takeover)

\* "Update finding with validation results"
UpdateFinding(f, validation) ==
    [f EXCEPT !.takeover_status = validation.status,
              !.confidence = validation.confidence,
              !.evidence = @ \o validation.evidence,
              !.verification_steps = validation.verification_steps,
              !.risk_level = validation.risk_level]

\* ------------------------------------------------------------ the pipeline

\* SubdomainFinding(subdomain=subdomain): the dataclass defaults
NewFinding ==
    [provider |-> None, cname |-> None, cname_chain |-> <<>>, a_records |-> "none",
     http_status |-> NoStatus, https_status |-> NoStatus, response_body |-> "",
     takeover_status |-> "SAFE", confidence |-> 0, evidence |-> <<>>,
     verification_steps |-> <<>>, is_live |-> FALSE, risk_level |-> "INFO",
     ns_records |-> <<>>, ns_takeover |-> FALSE, ssl_mismatch |-> FALSE,
     ssl_cert_cn |-> None, dangling_a_record |-> FALSE, header_fingerprint |-> None]

\* locals of analyze_subdomain and validate_takeover that live across an await:
\* nxdomain, chain_dangling, the validation dict at the call of
\* check_wildcard_domain (raw is its confidence there), the value has_wildcard
\* that call returned (hw), validation['confidence'] before the can_takeover
\* check (original_conf), and which return statement produced the finding;
\* the probes made for the hostname after the DNS stage (probed); the length
\* of str(e) of a caught exception (message_len) and of the part of it the
\* evidence entry carries (error_len).
NewLocals ==
    [nxdomain |-> FALSE, chain_dangling |-> <<>>, validation |-> NewValidation,
     raw |-> 0, hw |-> FALSE, original_conf |-> 0, outcome |-> "none",
     probed |-> {}, message_len |-> 0, error_len |-> 0]

\* _wildcard_checked left as it was when check_wildcard_domain awaits
MarkCheckedLate(checked) == checked

\* the value check_wildcard_domain stores in _wildcard_checked before it awaits
MarkChecked(checked) == TRUE

\* a semaphore that lets every caller in
CanEnterAlways(value) == TRUE

\* asyncio.Semaphore.acquire returns without waiting iff the value is positive
CanEnter(value) == value > 0

\* an exit of "async with semaphore" that does not give the slot back
LeaveKeepingSlot(value) == value

\* asyncio.Semaphore.release at the exit of "async with semaphore"
Leave(value) == value + 1

\* bounded_analyze: "async with semaphore" entered
Acquire(p) ==
    /\ pc[p] = "queued"
    /\ CanEnter(semaphore)
    /\ semaphore' = semaphore - 1
    /\ pc' = [pc EXCEPT ![p] = "dns"]
    /\ UNCHANGED <<subdomains, threads, finding, loc, wildcard_checked, has_wildcard,
                   wildcard_calls, completed, scan, valid_findings,
                   rq, rl, exit_code, cache, tls>>

\* Step 1: analyze_dns (resolve_cname, resolve_a, identify_provider)
AnalyzeDns(p, W) ==
    /\ pc[p] = "dns"
    /\ \E chain \in W.chains, a \in W.a_kinds :
          LET cname == IF chain = <<>> THEN None ELSE chain[1]
          IN  finding' = [finding EXCEPT ![p] =
                  [@ EXCEPT !.cname = cname, !.cname_chain = chain, !.a_records = a,
                            !.provider = identify_provider(cname, chain)]]
    /\ pc' = [pc EXCEPT ![p] = "ns"]
    /\ UNCHANGED <<subdomains, threads, semaphore, loc, wildcard_checked, has_wildcard,
                   wildcard_calls, completed, scan, valid_findings,
                   rq, rl, exit_code, cache, tls>>

\* the early exit taken only when the hostname has no A record at all
EarlyExitWithoutARecords(f, ns_vuln) ==
    f.provider = None /\ f.cname = None /\ ~ns_vuln /\ f.a_records = "none"

\* "If no CNAME/provider AND no NS takeover AND no dangling A, mark safe and skip"
EarlyExit(f, ns_vuln) ==
    f.provider = None /\ f.cname = None /\ ~ns_vuln /\ ~f.dangling_a_record

\* Steps 2 and 3 and the early exit: check_ns_takeover, the dangling A-record
\* check without CNAME, "mark safe and skip"
CheckNs(p, W) ==
    /\ pc[p] = "ns"
    /\ \E ns_records \in W.ns_sets :
          LET dead_ns == DeadNs(ns_records)
              ns_vuln == Len(dead_ns) > 0
              f0 == finding[p]
              f1 == [f0 EXCEPT !.ns_records = ns_records, !.ns_takeover = ns_vuln,
                               !.evidence = IF ns_vuln THEN Append(@, "NS_TAKEOVER") ELSE @]
              is_dangling == check_dangling_a_record(f1.a_records)
              f2 == IF f1.a_records # "none" /\ f1.cname = None
                    THEN [f1 EXCEPT !.dangling_a_record = is_dangling,
                                    !.evidence = IF is_dangling THEN Append(@, "A_CLOUD_RANGE") ELSE @]
                    ELSE f1
          IN  IF EarlyExit(f2, ns_vuln)
              THEN /\ finding' = [finding EXCEPT ![p] =
                          [f2 EXCEPT !.takeover_status = "SAFE",
                                     !.evidence = Append(@, "NO_DNS_SIGNALS")]]
                   /\ loc' = [loc EXCEPT ![p].outcome = "early_exit"]
                   /\ pc' = [pc EXCEPT ![p] = "returned"]
              ELSE /\ finding' = [finding EXCEPT ![p] = f2]
                   /\ loc' = loc
                   /\ pc' = [pc EXCEPT ![p] = "nxdomain"]
    /\ UNCHANGED <<subdomains, threads, semaphore, wildcard_checked, has_wildcard,
                   wildcard_calls, completed, scan, valid_findings,
                   rq, rl, exit_code, cache, tls>>

\* Step 4: NXDOMAIN check on the CNAME target
CheckNxdomain(p) ==
    /\ pc[p] = "nxdomain"
    /\ LET nxdomain == IF finding[p].cname # None
                       THEN check_cname_nxdomain(finding[p].cname) ELSE FALSE
       IN  /\ loc' = [loc EXCEPT ![p].nxdomain = nxdomain]
           /\ finding' = [finding EXCEPT ![p].evidence =
                            IF nxdomain THEN Append(@, "CNAME_NXDOMAIN") ELSE @]
    /\ pc' = [pc EXCEPT ![p] = "chain"]
    /\ UNCHANGED <<subdomains, threads, semaphore, wildcard_checked, has_wildcard,
                   wildcard_calls, completed, scan, valid_findings,
                   rq, rl, exit_code, cache, tls>>

\* Step 5: second-order CNAME chain walk
CheckChain(p) ==
    /\ pc[p] = "chain"
    /\ LET f == finding[p]
           chain_dangling == IF Len(f.cname_chain) > 1
                             THEN check_chain_nxdomain(f.cname_chain) ELSE <<>>
           others == SelectSeqIdx(chain_dangling, Range(chain_dangling) \ {f.cname})
       IN  /\ loc' = [loc EXCEPT ![p].chain_dangling = chain_dangling]
           /\ finding' = [finding EXCEPT ![p].evidence =
                            @ \o Repeat("CHAIN_NXDOMAIN", Len(others))]
    /\ pc' = [pc EXCEPT ![p] = "http"]
    /\ UNCHANGED <<subdomains, threads, semaphore, wildcard_checked, has_wildcard,
                   wildcard_calls, completed, scan, valid_findings,
                   rq, rl, exit_code, cache, tls>>

\* Steps 6 and 7: analyze_http and header fingerprinting
AnalyzeHttp(p, W) ==
    /\ pc[p] = "http"
    /\ \E rHttp \in W.responses, rHttps \in W.responses :
          LET http_info == analyze_http(rHttp, rHttps)
              header_provider == check_response_headers(http_info.headers)
              f0 == [finding[p] EXCEPT !.http_status = http_info.http_status,
                                       !.https_status = http_info.https_status,
                                       !.response_body = http_info.body,
                                       !.is_live = http_info.is_live]
              f1 == IF header_provider = None THEN f0
                    ELSE IF f0.provider = None
                    THEN [f0 EXCEPT !.header_fingerprint = header_provider,
                                    !.provider = header_provider,
                                    !.evidence = Append(@, "HEADER_PROVIDER")]
                    ELSE IF header_provider # f0.provider
                    THEN [f0 EXCEPT !.header_fingerprint = header_provider,
                                    !.evidence = Append(@, "HEADER_DIFFERS")]
                    ELSE [f0 EXCEPT !.header_fingerprint = header_provider]
          IN  finding' = [finding EXCEPT ![p] = f1]
    /\ loc' = [loc EXCEPT ![p].probed = @ \cup {"http"}]
    /\ pc' = [pc EXCEPT ![p] = "ssl"]
    /\ UNCHANGED <<subdomains, threads, semaphore, wildcard_checked, has_wildcard,
                   wildcard_calls, completed, scan, valid_findings,
                   rq, rl, exit_code, cache, tls>>

\* Steps 8 and 9, then step 10 up to the first suspension of validate_takeover:
\* the SSL result, the dangling A-record check behind a CNAME, the signals of
\* validate_takeover, and check_wildcard_domain up to its await (or, with the
\* memo set, the rest of validate_takeover and the update of the finding).
CheckSsl(p, W) ==
    /\ pc[p] = "ssl"
    /\ \E ssl \in W.ssl_results :
          LET f0 == [finding[p] EXCEPT !.ssl_mismatch = ssl.mismatch, !.ssl_cert_cn = ssl.cn,
                        !.evidence = IF ssl.mismatch /\ ssl.cn \notin {None, ""}
                                     THEN Append(@, "SSL_MISMATCH") ELSE @]
              is_dangling == check_dangling_a_record(f0.a_records)
              f1 == IF f0.a_records # "none" /\ f0.cname # None
                    THEN [f0 EXCEPT !.dangling_a_record = is_dangling,
                                    !.evidence = IF is_dangling /\ ~f0.is_live
                                                 THEN Append(@, "CNAME_UNREACHABLE_CLOUD") ELSE @]
                    ELSE f0
              l == loc[p]
              ns0 == SignalNs(NewValidation, f1.ns_takeover)
              v == ScoreSignals(f1, f1.response_body, l.nxdomain, f1.ns_takeover,
                                l.chain_dangling, ssl.mismatch)
          IN  IF NoProviderReturn(f1, f1.ns_takeover)
              THEN /\ finding' = [finding EXCEPT ![p] =
                          UpdateFinding(f1, [Note(ns0, "V_NO_PROVIDER") EXCEPT !.status = "SAFE"])]
                   /\ loc' = [loc EXCEPT ![p] =
                          [@ EXCEPT !.outcome = "no_provider", !.probed = @ \cup {"ssl"}]]
                   /\ pc' = [pc EXCEPT ![p] = "returned"]
                   /\ UNCHANGED <<wildcard_checked, wildcard_calls>>
              ELSE IF wildcard_checked
              THEN LET done == FinishValidation(v, f1, has_wildcard, f1.ns_takeover)
                   IN  /\ finding' = [finding EXCEPT ![p] = UpdateFinding(f1, done)]
                       /\ loc' = [loc EXCEPT ![p] =
                              [@ EXCEPT !.validation = done, !.raw = v.confidence,
                                        !.hw = has_wildcard,
                                        !.original_conf =
                                            WildcardSuppression(v, has_wildcard).confidence,
                                        !.outcome = "scored",
                                        !.probed = @ \cup {"ssl", "wildcard"}]]
                       /\ pc' = [pc EXCEPT ![p] = "returned"]
                       /\ UNCHANGED <<wildcard_checked, wildcard_calls>>
              ELSE /\ finding' = [finding EXCEPT ![p] = f1]
                   /\ loc' = [loc EXCEPT ![p] =
                          [@ EXCEPT !.validation = v, !.raw = v.confidence,
                                    !.probed = @ \cup {"ssl", "wildcard"}]]
                   /\ wildcard_checked' = MarkChecked(wildcard_checked)
                   /\ wildcard_calls' = wildcard_calls + 1
                   /\ pc' = [pc EXCEPT ![p] = "wildcard"]
    /\ UNCHANGED <<subdomains, threads, semaphore, has_wildcard, completed, scan, valid_findings,
                   rq, rl, exit_code, cache, tls>>

\* check_wildcard_domain after its await (DNSResolver.check_wildcard returned
\* w), then the rest of validate_takeover and the update of the finding
WildcardDone(p, W) ==
    /\ pc[p] = "wildcard"
    /\ \E w \in W.wildcard :
          LET f == finding[p]
              v == loc[p].validation
              done == FinishValidation(v, f, w, f.ns_takeover)
          IN  /\ has_wildcard' = w
              /\ finding' = [finding EXCEPT ![p] = UpdateFinding(f, done)]
              /\ loc' = [loc EXCEPT ![p] =
                     [@ EXCEPT !.validation = done, !.hw = w,
                               !.original_conf = WildcardSuppression(v, w).confidence,
                               !.outcome = "scored"]]
    /\ pc' = [pc EXCEPT ![p] = "returned"]
    /\ UNCHANGED <<subdomains, threads, semaphore, wildcard_checked, wildcard_calls,
                   completed, scan, valid_findings,
                   rq, rl, exit_code, cache, tls>>

\* str(e)[:100] by the length of the message
ErrorChars == 100
Truncate(message_len) == Min(message_len, ErrorChars)

\* an except clause that starts the evidence list over
OnExceptionDroppingEvidence(f) ==
    [f EXCEPT !.takeover_status = "ERROR", !.evidence = <<"ANALYSIS_ERROR">>]

\* "except Exception as e" of analyze_subdomain
OnException(f) ==
    [f EXCEPT !.takeover_status = "ERROR", !.evidence = Append(@, "ANALYSIS_ERROR")]

\* the stages of analyze_subdomain whose awaited call can raise into its try
\* block (check_wildcard catches everything raised below it)
RaiseStages == {"dns", "ns", "nxdomain", "chain", "http", "ssl"}

\* the call awaited at the stage of p raises an Exception whose message has
\* message_len characters: the except clause, then "return finding"
Raise(p, W) ==
    /\ pc[p] \in RaiseStages
    /\ \E message_len \in W.errors :
          loc' = [loc EXCEPT ![p] =
                    [@ EXCEPT !.outcome = "error", !.message_len = message_len,
                              !.error_len = Truncate(message_len)]]
    /\ finding' = [finding EXCEPT ![p] = OnException(@)]
    /\ pc' = [pc EXCEPT ![p] = "returned"]
    /\ UNCHANGED <<subdomains, threads, semaphore, wildcard_checked, has_wildcard,
                   wildcard_calls, completed, scan, valid_findings, rq, rl, exit_code, cache, tls>>

\* bounded_analyze after analyze_subdomain returned: count it, leave the semaphore
Release(p) ==
    /\ pc[p] = "returned"
    /\ completed' = completed + 1
    /\ semaphore' = Leave(semaphore)
    /\ pc' = [pc EXCEPT ![p] = "done"]
    /\ UNCHANGED <<subdomains, threads, finding, loc, wildcard_checked, has_wildcard,
                   wildcard_calls, scan, valid_findings,
                   rq, rl, exit_code, cache, tls>>

RECURSIVE TaskOrder(_)
\* tasks = [bounded_analyze(sub) for sub in self.subdomains]: the hostnames in
\* the order the set is iterated (here: ascending)
TaskOrder(S) ==
    IF S = {} THEN <<>>
    ELSE LET least == CHOOSE x \in S : \A y \in S : x <= y
         IN  <<least>> \o TaskOrder(S \ {least})

\* what asyncio.gather(..., return_exceptions=True) holds for the task of p
Result(p) ==
    IF pc[p] = "done"
    THEN [is_finding |-> TRUE, status |-> finding[p].takeover_status]
    ELSE [is_finding |-> FALSE, status |-> "exception"]

\* a filter that also drops the findings whose verdict is ERROR
IsValidFindingNotError(result) == result.is_finding /\ result.status # "ERROR"

\* isinstance(result, SubdomainFinding)
IsValidFinding(result) == result.is_finding

\* analyze_subdomains after "await asyncio.gather": every task has finished;
\* "Filter out exceptions and convert to list", return valid_findings
Gather ==
    /\ scan = "running"
    /\ subdomains # {}
    /\ \A p \in subdomains : pc[p] = "done"
    /\ valid_findings' =
          SelectSeqIdx(TaskOrder(subdomains), {p \in subdomains : IsValidFinding(Result(p))})
    /\ scan' = "gathered"
    /\ UNCHANGED <<subdomains, threads, semaphore, pc, finding, loc, wildcard_checked,
                   has_wildcard, wildcard_calls, completed, rq, rl, exit_code, cache, tls>>

\* the stages at which the pipeline may be suspended inside a bare "except:"
\* (resolve_a and the resolver walk of resolve_cname under analyze_dns,
\* writer.wait_closed under check_ssl_mismatch, check_wildcard), where a
\* CancelledError thrown into it is caught and the pipeline goes on
SwallowStages == {"dns", "ssl", "wildcard"}

\* the stages at which a CancelledError thrown into the pipeline can leave it:
\* it is no Exception, so neither the helpers' "except Exception" nor the one
\* of analyze_subdomain catches it
CancelStages == {"queued", "dns", "ns", "nxdomain", "chain", "http", "ssl"}

\* the stages inside "async with semaphore" and analyze_subdomain
InFlightStages == {"dns", "ns", "nxdomain", "chain", "http", "ssl", "wildcard"}

\* KeyboardInterrupt while asyncio.run(main()) waits in gather: the main task
\* and with it every unfinished bounded_analyze task is cancelled.  A task
\* the CancelledError leaves ends without a finding (cancelled); a task that
\* catches it in a bare except goes on.  run() does not catch it, no report is
\* written, and __main__ exits with 130.
Interrupt ==
    /\ scan = "running"
    /\ \A p \in subdomains : pc[p] # "returned"
    /\ \E cancelled \in SUBSET {p \in subdomains : pc[p] \in CancelStages} :
          /\ \A p \in subdomains :
                (pc[p] \in CancelStages \ SwallowStages) => p \in cancelled
          /\ pc' = [p \in subdomains |-> IF p \in cancelled THEN "cancelled" ELSE pc[p]]
          /\ loc' = [p \in subdomains |->
                        IF p \in cancelled /\ pc[p] \in InFlightStages
                        THEN [loc[p] EXCEPT !.outcome = "cancelled"] ELSE loc[p]]
          /\ semaphore' = semaphore
                            + Cardinality({p \in cancelled : pc[p] \in InFlightStages})
    /\ scan' = "interrupted"
    /\ UNCHANGED <<subdomains, threads, finding, wildcard_checked, has_wildcard,
                   wildcard_calls, completed, valid_findings, rq, rl, exit_code, cache, tls>>

\* the process has not exited
NoExit == -1

\* the state analyze_subdomains starts from: one queued task per hostname, a
\* new TakeoverDetector, a semaphore of args.threads slots
ScanInit(S, n) ==
    /\ subdomains = S
    /\ threads = n
    /\ semaphore = n
    /\ pc = [p \in S |-> "queued"]
    /\ finding = [p \in S |-> NewFinding]
    /\ loc = [p \in S |-> NewLocals]
    /\ wildcard_checked = FALSE
    /\ has_wildcard = FALSE
    /\ wildcard_calls = 0
    /\ completed = 0
    /\ scan = "running"
    /\ valid_findings = <<>>
    /\ exit_code = NoExit

\* ------------------------------------------------------ main: the exit status

\* main: "if not args.domain and not args.list: ... sys.exit(1)"; no scanner is
\* created and no hostname is analysed
NoTarget ==
    /\ scan = "running"
    /\ subdomains = {}
    /\ scan' = "no_target"
    /\ exit_code' = 1
    /\ UNCHANGED <<subdomains, threads, semaphore, pc, finding, loc, wildcard_checked,
                   has_wildcard, wildcard_calls, completed, valid_findings,
                   rq, rl, cache, tls>>

\* run: "if not self.subdomains: ... return None"; main: scan_result is falsy,
\* "Scan failed", sys.exit(1)
NoSubdomains ==
    /\ scan = "running"
    /\ subdomains = {}
    /\ scan' = "no_subdomains"
    /\ exit_code' = 1
    /\ UNCHANGED <<subdomains, threads, semaphore, pc, finding, loc, wildcard_checked,
                   has_wildcard, wildcard_calls, completed, valid_findings,
                   rq, rl, cache, tls>>

\* a filter that takes the CONFIRMED findings only
CriticalFindingsConfirmedOnly(findings) ==
    SelectSeqIdx(findings, {f \in Range(findings) : f.takeover_status = "CONFIRMED"})

\* main: critical_findings = [f for f in scan_result.findings if
\* f.takeover_status in [CONFIRMED, HIGHLY_LIKELY]]
CriticalFindings(findings) ==
    SelectSeqIdx(findings, {f \in Range(findings) :
                               f.takeover_status \in {"CONFIRMED", "HIGHLY_LIKELY"}})

\* scan_result.findings: the findings analyze_subdomains returned
Findings == [i \in 1..Len(valid_findings) |-> finding[valid_findings[i]]]

\* run after analyze_subdomains has returned: the ScanResult is built and the
\* reports are written, then main exits with 2 if there are critical findings
\* and with 0 otherwise; if generate_statistics or generate_reports raises,
\* run prints "Scanner error", returns None and main exits with 1
Finish ==
    /\ scan = "gathered"
    /\ \E raised \in BOOLEAN :
          IF raised
          THEN /\ scan' = "scanner_error"
               /\ exit_code' = 1
          ELSE /\ scan' = "reported"
               /\ exit_code' = IF CriticalFindings(Findings) # <<>> THEN 2 ELSE 0
    /\ UNCHANGED <<subdomains, threads, semaphore, pc, finding, loc, wildcard_checked,
                   has_wildcard, wildcard_calls, completed, valid_findings,
                   rq, rl, cache, tls>>

\* __main__: asyncio.run ends with KeyboardInterrupt once the cancelled main
\* task and every task of the scan have ended; "Scan interrupted by user",
\* sys.exit(130)
ExitInterrupted ==
    /\ scan = "interrupted"
    /\ exit_code = NoExit
    /\ \A p \in subdomains : pc[p] \in {"queued", "cancelled", "done"}
    /\ exit_code' = 130
    /\ UNCHANGED <<subdomains, threads, semaphore, pc, finding, loc, wildcard_checked,
                   has_wildcard, wildcard_calls, completed, scan, valid_findings,
                   rq, rl, cache, tls>>

\* ------------------------------------------------- Spec: one hostname, scored

\* The names a CNAME chain of the scoring world is made of
ScoreNames ==
    {"gone.s3.amazonaws.com", "live.s3.amazonaws.com", "live.workers.dev", "gone.example.net"}

ScoreWorld ==
    [chains      |-> {<<>>} \cup DistinctSeqs(ScoreNames, MaxChainLen),
     a_kinds     |-> {"none", "other", "cloud"},
     ns_sets     |-> {<<>>, <<"ns1.example.net">>, <<"ns1.deadzone.invalid">>},
     responses   |-> Responses({200, 404}, {"", "plain", "error", "claimed", "error claimed"},
                               {{}, {"Server:GitHub.com"}}),
     ssl_results |-> {[mismatch |-> FALSE, cn |-> None], [mismatch |-> FALSE, cn |-> "cn"],
                      [mismatch |-> TRUE, cn |-> "cn"], [mismatch |-> TRUE, cn |-> ""]},
     wildcard    |-> BOOLEAN,
     errors      |-> {ErrorChars, ErrorChars + 1}]

NoResolve == [state |-> "off"]
NoLimiter == [state |-> "off"]
NoCache == [state |-> "off"]
NoTls == [state |-> "off"]

Init ==
    /\ ScanInit({1}, 1)
    /\ rq = NoResolve
    /\ rl = NoLimiter
    /\ cache = NoCache
    /\ tls = NoTls

Next ==
    \/ \E p \in subdomains : Acquire(p)
    \/ \E p \in subdomains : AnalyzeDns(p, ScoreWorld)
    \/ \E p \in subdomains : CheckNs(p, ScoreWorld)
    \/ \E p \in subdomains : CheckNxdomain(p)
    \/ \E p \in subdomains : CheckChain(p)
    \/ \E p \in subdomains : AnalyzeHttp(p, ScoreWorld)
    \/ \E p \in subdomains : CheckSsl(p, ScoreWorld)
    \/ \E p \in subdomains : WildcardDone(p, ScoreWorld)
    \/ \E p \in subdomains : Raise(p, ScoreWorld)
    \/ \E p \in subdomains : Release(p)

Spec == Init /\ [][Next]_vars

\* ------------------------------------- ScanSpec: concurrent pipelines of a scan

MaxThreads == 2

\* A scan over hostnames with no takeover-relevant DNS data or with a CNAME to
\* a missing S3 bucket, whose HTTP and TLS probes fail.
ScanWorld ==
    [chains      |-> {<<>>, <<"gone.s3.amazonaws.com">>},
     a_kinds     |-> {"none"},
     ns_sets     |-> {<<>>},
     responses   |-> {FailedGet},
     ssl_results |-> {[mismatch |-> FALSE, cn |-> None]},
     wildcard    |-> BOOLEAN,
     errors      |-> {ErrorChars + 1}]

ScanSpecInit ==
    /\ \E n \in 1..MaxThreads : \E S \in {{}, 1..NumPipelines} : ScanInit(S, n)
    /\ rq = NoResolve
    /\ rl = NoLimiter
    /\ cache = NoCache
    /\ tls = NoTls

ScanNext ==
    \/ \E p \in subdomains : Acquire(p)
    \/ \E p \in subdomains : AnalyzeDns(p, ScanWorld)
    \/ \E p \in subdomains : CheckNs(p, ScanWorld)
    \/ \E p \in subdomains : CheckNxdomain(p)
    \/ \E p \in subdomains : CheckChain(p)
    \/ \E p \in subdomains : AnalyzeHttp(p, ScanWorld)
    \/ \E p \in subdomains : CheckSsl(p, ScanWorld)
    \/ \E p \in subdomains : WildcardDone(p, ScanWorld)
    \/ \E p \in subdomains : Raise(p, ScanWorld)
    \/ \E p \in subdomains : Release(p)
    \/ Gather
    \/ Interrupt
    \/ NoTarget
    \/ NoSubdomains
    \/ Finish
    \/ ExitInterrupted

ScanSpec == ScanSpecInit /\ [][ScanNext]_vars

\* ---------------------------- ResolveSpec: one DNSResolver.resolve_cname call

MaxNames == 6
MaxTraceLines == 3
MaxHops == 5

\* The names an alias can point at; NoName stands for None (no CNAME, an
\* empty dig output, a failed query).
NoName == 0
RNames == 1..MaxNames
Answers == RNames \cup {NoName}

RECURSIVE Unique(_, _)
\* "Remove duplicates while preserving order"
Unique(cnames, seen) ==
    IF cnames = <<>> THEN <<>>
    ELSE IF Head(cnames) \in seen THEN Unique(Tail(cnames), seen)
    ELSE <<Head(cnames)>> \o Unique(Tail(cnames), seen \cup {Head(cnames)})

NoResult == [head |-> NoName, chain |-> <<>>]

ResolveInit ==
    /\ ScanInit({}, 0)
    /\ \E dig \in BOOLEAN :
          rq = [state |-> "start", dig_available |-> dig, chain |-> <<>>, cname |-> NoName,
                hops |-> 0, result |-> NoResult, cached |-> FALSE]
    /\ rl = NoLimiter
    /\ cache = NoCache
    /\ tls = NoTls

\* resolve_cname returns result after storing it in the cache
Return(r, result) == [r EXCEPT !.state = "done", !.result = result, !.cached = TRUE]

\* resolve_cname: the cache is missed; dig first when it is available
ResolveStart ==
    /\ rq.state = "start"
    /\ ~rq.cached
    /\ rq' = [rq EXCEPT !.state = IF rq.dig_available THEN "trace" ELSE "resolver"]
    /\ UNCHANGED scanVars

\* _resolve_cname_with_dig: "dig +short +trace CNAME" ended.  Its output names
\* CNAME targets (cnames), or none (then the simple dig follows), or the
\* subprocess raised or timed out (then (None, []) and the dnspython fallback).
DigTrace ==
    /\ rq.state = "trace"
    /\ \/ \E cnames \in UNION {[1..k -> RNames] : k \in 1..MaxTraceLines} :
             LET unique_cnames == Unique(cnames, {})
             IN  rq' = Return(rq, [head |-> unique_cnames[1], chain |-> unique_cnames])
       \/ rq' = [rq EXCEPT !.state = "simple"]
       \/ rq' = [rq EXCEPT !.state = "resolver"]
    /\ UNCHANGED scanVars

\* _resolve_cname_with_dig: "dig +short CNAME" ended with a first line (the
\* chain starts) or with nothing (then (None, []) and the dnspython fallback)
DigSimple ==
    /\ rq.state = "simple"
    /\ \E first \in Answers :
          rq' = IF first = NoName THEN [rq EXCEPT !.state = "resolver"]
                ELSE [rq EXCEPT !.state = "dig_walk", !.chain = <<first>>,
                                !.cname = first, !.hops = 0]
    /\ UNCHANGED scanVars

\* one turn of "for _ in range(5)" of _resolve_cname_with_dig, after
\* _dig_cname_single returned next_cname; the chain is returned when the loop
\* breaks or has made its five turns
DigWalk ==
    /\ rq.state = "dig_walk"
    /\ rq.hops < MaxHops
    /\ \E next_cname \in Answers :
          IF next_cname # NoName /\ next_cname # rq.cname
          THEN LET chain == Append(rq.chain, next_cname)
                   r == [rq EXCEPT !.chain = chain, !.cname = next_cname, !.hops = @ + 1]
               IN  rq' = IF r.hops = MaxHops
                         THEN Return(r, [head |-> chain[1], chain |-> chain])
                         ELSE r
          ELSE rq' = Return(rq, [head |-> rq.chain[1], chain |-> rq.chain])
    /\ UNCHANGED scanVars

\* the dnspython fallback: resolver.resolve(domain, 'CNAME') answered, or
\* raised (then the socket lookup follows)
ResolverFirst ==
    /\ rq.state = "resolver"
    /\ \E answer \in Answers :
          rq' = IF answer = NoName THEN [rq EXCEPT !.state = "socket"]
                ELSE [rq EXCEPT !.state = "res_walk", !.chain = <<answer>>,
                                !.cname = answer, !.hops = 0]
    /\ UNCHANGED scanVars

\* one turn of "for _ in range(5)" of resolve_cname: the next CNAME query
\* answered next_cname or raised (NoName)
ResolverWalk ==
    /\ rq.state = "res_walk"
    /\ rq.hops < MaxHops
    /\ \E next_cname \in Answers :
          IF next_cname # NoName /\ next_cname \notin Range(rq.chain)
          THEN LET chain == Append(rq.chain, next_cname)
                   r == [rq EXCEPT !.chain = chain, !.cname = next_cname, !.hops = @ + 1]
               IN  rq' = IF r.hops = MaxHops
                         THEN Return(r, [head |-> chain[1], chain |-> chain])
                         ELSE r
          ELSE rq' = Return(rq, [head |-> rq.chain[1], chain |-> rq.chain])
    /\ UNCHANGED scanVars

\* "Last resort": socket.gethostbyname_ex gave an alias, or nothing
SocketLookup ==
    /\ rq.state = "socket"
    /\ \E alias \in Answers :
          rq' = IF alias = NoName THEN Return(rq, NoResult)
                ELSE Return(rq, [head |-> alias, chain |-> <<alias>>])
    /\ UNCHANGED scanVars

ResolveNext ==
    \/ ResolveStart
    \/ DigTrace
    \/ DigSimple
    \/ DigWalk
    \/ ResolverFirst
    \/ ResolverWalk
    \/ SocketLookup

ResolveSpec == ResolveInit /\ [][ResolveNext]_vars

\* ------------------------------- RateSpec: tasks calling RateLimiter.wait

CallsPerSecond == 2
TicksPerInterval == 2
NumCallers == 3
MaxTime == 8

\* time.time() is counted in ticks; min_interval = 1.0 / calls_per_second
MinInterval == TicksPerInterval
Second == CallsPerSecond * TicksPerInterval

Callers == 1..NumCallers

\* RateLimiter(calls_per_second): last_call = 0, while the clock stands at
\* least min_interval after 0; no task has called wait() yet
RateInit ==
    /\ ScanInit({}, 0)
    /\ rq = NoResolve
    /\ cache = NoCache
    /\ tls = NoTls
    /\ rl = [state |-> "on", now |-> MinInterval, last_call |-> 0,
             semaphore |-> CallsPerSecond,
             task |-> [t \in Callers |-> [at |-> "idle", wake |-> 0]],
             returns |-> <<>>]

\* time passes: up to MaxTime, and beyond for as long as a task sleeps
Tick ==
    /\ rl.state = "on"
    /\ \/ rl.now < MaxTime
       \/ \E t \in Callers : rl.task[t].at = "sleeping" /\ rl.now < rl.task[t].wake
    /\ rl' = [rl EXCEPT !.now = @ + 1]
    /\ UNCHANGED nonLimiterVars

\* wait() called by task t: the semaphore is entered, the clock read; either
\* the task starts asyncio.sleep(min_interval - elapsed), or it sets last_call,
\* leaves the semaphore and returns
Wait(t) ==
    /\ rl.state = "on"
    /\ rl.task[t].at = "idle"
    /\ CanEnter(rl.semaphore)
    /\ LET elapsed == rl.now - rl.last_call
       IN  rl' = IF elapsed < MinInterval
                 THEN [rl EXCEPT !.semaphore = @ - 1,
                                 !.task[t] = [at |-> "sleeping",
                                              wake |-> rl.now + (MinInterval - elapsed)]]
                 ELSE [rl EXCEPT !.last_call = rl.now,
                                 !.returns = Append(@, rl.now),
                                 !.task[t] = [at |-> "returned", wake |-> 0]]
    /\ UNCHANGED nonLimiterVars

\* asyncio.sleep of task t is over: last_call = time.time(), the semaphore is
\* left, wait() returns
WakeUp(t) ==
    /\ rl.state = "on"
    /\ rl.task[t].at = "sleeping"
    /\ rl.now >= rl.task[t].wake
    /\ rl' = [rl EXCEPT !.last_call = rl.now,
                        !.returns = Append(@, rl.now),
                        !.semaphore = Leave(@),
                        !.task[t] = [at |-> "returned", wake |-> 0]]
    /\ UNCHANGED nonLimiterVars

RateNext ==
    \/ Tick
    \/ \E t \in Callers : Wait(t)
    \/ \E t \in Callers : WakeUp(t)

RateSpec == RateInit /\ [][RateNext]_vars

\* ------- LiveSpec: a scan, or the callers of a rate limiter, run to the end

\* either analyze_subdomains over a non-empty hostname set with N >= 1 slots,
\* or a RateLimiter with its callers
LiveInit ==
    \/ /\ \E n \in 1..MaxThreads : ScanInit(1..NumPipelines, n)
       /\ rq = NoResolve
       /\ rl = NoLimiter
       /\ cache = NoCache
       /\ tls = NoTls
    \/ RateInit

LiveNext ==
    \/ \E p \in subdomains : Acquire(p)
    \/ \E p \in subdomains : AnalyzeDns(p, ScanWorld)
    \/ \E p \in subdomains : CheckNs(p, ScanWorld)
    \/ \E p \in subdomains : CheckNxdomain(p)
    \/ \E p \in subdomains : CheckChain(p)
    \/ \E p \in subdomains : AnalyzeHttp(p, ScanWorld)
    \/ \E p \in subdomains : CheckSsl(p, ScanWorld)
    \/ \E p \in subdomains : WildcardDone(p, ScanWorld)
    \/ \E p \in subdomains : Raise(p, ScanWorld)
    \/ \E p \in subdomains : Release(p)
    \/ Gather
    \/ Tick
    \/ \E t \in Callers : Wait(t)
    \/ \E t \in Callers : WakeUp(t)

\* The event loop runs a task that is ready, every awaited DNS, HTTP and TLS
\* operation returns or fails, and time passes: a step that stays possible is
\* taken.
LiveSpec == LiveInit /\ [][LiveNext]_vars /\ WF_vars(LiveNext)

\* ------------------ CatalogSpec: one hostname over the whole zone and catalog

MaxLinks == 3

\* the names a CNAME chain of this world is made of: every classification of
\* a lookup, and names matching no, one and two providers
CatalogNames ==
    {"gone.s3.amazonaws.com", "gone.example.net", "noanswer.example.net",
     "timeout.example.net", "lame.example.net", "site.github.io",
     "site.github.io.s3.amazonaws.com", "Site.GitHub.IO"}

\* a host that is reachable (with or without GitHub's Server header) or not,
\* presents a matching certificate, and has no wildcard DNS
CatalogWorld ==
    [chains      |-> {<<>>} \cup UNION {DistinctSeqs(CatalogNames, n) : n \in 1..MaxLinks},
     a_kinds     |-> {"none"},
     ns_sets     |-> {<<>>, <<"ns1.example.net">>, <<"ns1.noanswer.invalid">>,
                      <<"ns1.timeout.invalid", "ns1.example.net">>,
                      <<"ns1.example.net", "ns1.lame.invalid">>,
                      <<"ns1.deadzone.invalid">>},
     responses   |-> Responses({200}, {"plain"}, {{}, {"Server:GitHub.com"}}),
     ssl_results |-> {[mismatch |-> FALSE, cn |-> None]},
     wildcard    |-> {FALSE},
     errors      |-> {ErrorChars}]

CatalogNext ==
    \/ \E p \in subdomains : Acquire(p)
    \/ \E p \in subdomains : AnalyzeDns(p, CatalogWorld)
    \/ \E p \in subdomains : CheckNs(p, CatalogWorld)
    \/ \E p \in subdomains : CheckNxdomain(p)
    \/ \E p \in subdomains : CheckChain(p)
    \/ \E p \in subdomains : AnalyzeHttp(p, CatalogWorld)
    \/ \E p \in subdomains : CheckSsl(p, CatalogWorld)
    \/ \E p \in subdomains : WildcardDone(p, CatalogWorld)
    \/ \E p \in subdomains : Release(p)

CatalogSpec == Init /\ [][CatalogNext]_vars

\* -------------------------- CacheSpec: concurrent lookups of one DNS cache key

NumResolves == 3

\* the calls of resolve_a (or resolve_cname) for one name
Resolves == 1..NumResolves

\* what the backends (dig, dnspython, socket) can make a call return: the
\* empty result of a failed lookup, or one of two answers
BackendResults == {<<>>, <<"192.0.2.1">>, <<"192.0.2.2">>}

\* DNSResolver(): self.cache = {}; no call has started
CacheInit ==
    /\ ScanInit({}, 0)
    /\ rq = NoResolve
    /\ rl = NoLimiter
    /\ tls = NoTls
    /\ cache = [state |-> "on", present |-> FALSE, value |-> <<>>, queries |-> 0,
                call |-> [c \in Resolves |-> [at |-> "idle", result |-> <<>>, hit |-> FALSE]]]

\* self.cache[cache_key] = result
Store(k, result) == [k EXCEPT !.present = TRUE, !.value = result]

\* "if cache_key in self.cache: return self.cache[cache_key]"; on a miss the
\* call goes on to the backends and is suspended in the first query
CacheLookup(c) ==
    /\ cache.state = "on"
    /\ cache.call[c].at = "idle"
    /\ cache' =
          IF cache.present
          THEN [cache EXCEPT !.call[c] = [at |-> "returned", result |-> cache.value,
                                          hit |-> TRUE]]
          ELSE [cache EXCEPT !.call[c].at = "querying", !.queries = @ + 1]
    /\ UNCHANGED <<subdomains, threads, semaphore, pc, finding, loc, wildcard_checked,
                   has_wildcard, wildcard_calls, completed, scan, valid_findings,
                   rq, rl, exit_code, tls>>

\* the backends have answered or failed: every path of resolve_a and
\* resolve_cname stores its result under the key and returns it
CacheAnswer(c) ==
    /\ cache.state = "on"
    /\ cache.call[c].at = "querying"
    /\ \E result \in BackendResults :
          cache' = [Store(cache, result) EXCEPT
                        !.call[c] = [at |-> "returned", result |-> result, hit |-> FALSE]]
    /\ UNCHANGED <<subdomains, threads, semaphore, pc, finding, loc, wildcard_checked,
                   has_wildcard, wildcard_calls, completed, scan, valid_findings,
                   rq, rl, exit_code, tls>>

CacheNext ==
    \/ \E c \in Resolves : CacheLookup(c)
    \/ \E c \in Resolves : CacheAnswer(c)

CacheSpec == CacheInit /\ [][CacheNext]_vars

\* ------------------------------------- TlsSpec: one check_ssl_mismatch call

MaxSans == 2

\* Host and certificate names are strings, written as sequences of pieces: a
\* run of characters without a dot, or the dot.  "xfoo.bar" is the piece "x"
\* followed by the pieces of "foo.bar".
FooBar == <<"foo", ".", "bar">>

TlsHosts == {FooBar, <<"a", ".">> \o FooBar, <<"a", ".", "b", ".">> \o FooBar,
             <<"x">> \o FooBar, <<"a", ".", "bar">>}

CertNames == {<<"*", ".">> \o FooBar, FooBar, <<"a", ".">> \o FooBar, <<"b", ".", "bar">>}

\* the certificates a server can present: a commonName (possibly empty) and
\* the DNS entries of subjectAltName
Certs == [cn : CertNames \cup {<<>>},
          sans : {<<>>} \cup UNION {DistinctSeqs(CertNames, n) : n \in 1..MaxSans}]

\* str.endswith
EndsWith(str, suffix) ==
    /\ Len(suffix) <= Len(str)
    /\ SubSeq(str, Len(str) - Len(suffix) + 1, Len(str)) = suffix

\* name.startswith('*.')
StartsWithWildcard(name) == Len(name) >= 2 /\ name[1] = "*" /\ name[2] = "."

\* the body of "for name in all_names": wildcard_base = name[2:] and
\* subdomain.endswith(wildcard_base) for a wildcard name, equality otherwise
NameMatches(subdomain, name) ==
    IF StartsWithWildcard(name)
    THEN EndsWith(subdomain, SubSeq(name, 3, Len(name)))
    ELSE subdomain = name

\* all_names = sans + ([cn] if cn else [])
AllNames(cert) == cert.sans \o (IF cert.cn # <<>> THEN <<cert.cn>> ELSE <<>>)

\* the value check_ssl_mismatch returns
SslResult(mismatch, cn) == [mismatch |-> mismatch, none |-> FALSE, cn |-> cn]

\* "return False, None"
SslNone == [mismatch |-> FALSE, none |-> TRUE, cn |-> <<>>]

\* check_ssl_mismatch(subdomain) has been called
TlsInit ==
    /\ ScanInit({}, 0)
    /\ rq = NoResolve
    /\ rl = NoLimiter
    /\ cache = NoCache
    /\ \E host \in TlsHosts :
          tls = [state |-> "connecting", subdomain |-> host, outcome |-> "none",
                 cert |-> [cn |-> <<>>, sans |-> <<>>], result |-> SslNone]

\* "await asyncio.wait_for(conn, timeout=5.0)" ends.  The connection failed or
\* timed out (except Exception: pass), or no certificate was received, or
\* getpeercert() gave an empty dict: "return False, None".  Otherwise the
\* names are compared, the writer is closed and the call is suspended in
\* writer.wait_closed().
TlsConnect ==
    /\ tls.state = "connecting"
    /\ \E outcome \in {"failed", "no_cert", "empty_dict", "parsed"} : \E cert \in Certs :
          /\ outcome \in {"failed", "no_cert"} => cert = [cn |-> <<>>, sans |-> <<>>]
          /\ tls' =
                IF outcome = "failed"
                THEN [tls EXCEPT !.state = "done", !.outcome = outcome, !.result = SslNone]
                ELSE IF outcome \in {"no_cert", "empty_dict"}
                THEN [tls EXCEPT !.state = "closing", !.outcome = outcome, !.cert = cert,
                                 !.result = SslNone]
                ELSE LET all_names == AllNames(cert)
                         matches == \E i \in 1..Len(all_names) :
                                        NameMatches(tls.subdomain, all_names[i])
                     IN  [tls EXCEPT !.state = "closing", !.outcome = outcome, !.cert = cert,
                                     !.result = SslResult(~matches, cert.cn)]
    /\ UNCHANGED <<subdomains, threads, semaphore, pc, finding, loc, wildcard_checked,
                   has_wildcard, wildcard_calls, completed, scan, valid_findings,
                   rq, rl, exit_code, cache>>

\* writer.wait_closed() ends (whatever it raises is dropped) and the call
\* returns
TlsClose ==
    /\ tls.state = "closing"
    /\ tls' = [tls EXCEPT !.state = "done"]
    /\ UNCHANGED <<subdomains, threads, semaphore, pc, finding, loc, wildcard_checked,
                   has_wildcard, wildcard_calls, completed, scan, valid_findings,
                   rq, rl, exit_code, cache>>

TlsNext ==
    \/ TlsConnect
    \/ TlsClose

TlsSpec == TlsInit /\ [][TlsNext]_vars

\* ------------------------------------------------------------------ claims

\* analyze_subdomain has returned the finding of p
Returned(p) == pc[p] \in {"returned", "done"}

\* ... and the finding went through validate_takeover's "Determine final status"
Scored(p) == Returned(p) /\ loc[p].outcome = "scored"

\* the evidence entries that record a signal contribution
SignalEvidence ==
    {"CNAME_NXDOMAIN", "V_NXDOMAIN", "CHAIN_NXDOMAIN", "V_CHAIN", "NS_TAKEOVER",
     "V_NS_DELEGATION", "A_CLOUD_RANGE", "CNAME_UNREACHABLE_CLOUD", "V_DANGLING_A",
     "V_STATUS_EXPECTED", "V_ERROR_FOUND", "SSL_MISMATCH", "V_SSL_MISMATCH"}

\* C1: every returned finding has 0 <= confidence <= 100.
C1_ConfidenceInRange ==
    \A p \in subdomains :
        Returned(p) => (0 <= finding[p].confidence /\ finding[p].confidence <= 100)

\* number of the thresholds 80, 60, 40, 20 that c reaches
Bucket(c) == Cardinality({t \in {80, 60, 40, 20} : c >= t})

VerdictRank(status) ==
    CASE status = "CONFIRMED" -> 4
      [] status = "HIGHLY_LIKELY" -> 3
      [] status = "LIKELY" -> 2
      [] status = "POSSIBLE" -> 1
      [] OTHER -> 0

\* C2: a scored finding's verdict is the bucket of its confidence c: CONFIRMED
\* iff c >= 80, HIGHLY_LIKELY iff 60 <= c < 80, LIKELY iff 40 <= c < 60,
\* POSSIBLE iff 20 <= c < 40 (and UNLIKELY or SAFE below 20), so the rank of the
\* verdict is the number of thresholds the confidence reaches.
C2_VerdictIsBucket ==
    \A p \in subdomains :
        Scored(p) =>
            LET c == finding[p].confidence
                s == finding[p].takeover_status
            IN  /\ (s = "CONFIRMED") <=> (c >= 80)
                /\ (s = "HIGHLY_LIKELY") <=> (60 <= c /\ c < 80)
                /\ (s = "LIKELY") <=> (40 <= c /\ c < 60)
                /\ (s = "POSSIBLE") <=> (20 <= c /\ c < 40)
                /\ (s \in {"UNLIKELY", "SAFE"}) <=> (c < 20)
                /\ VerdictRank(s) = Bucket(c)

C2_Witness ==
    \E p \in subdomains :
        Scored(p) /\ finding[p].confidence = 60 /\ finding[p].takeover_status = "HIGHLY_LIKELY"

\* C3: a returned finding with verdict SAFE has confidence 0.
C3_SafeHasZeroConfidence ==
    \A p \in subdomains :
        (Returned(p) /\ finding[p].takeover_status = "SAFE") => finding[p].confidence = 0

\* C4: a returned finding with verdict SAFE carries no signal-contribution evidence.
C4_SafeHasNoSignalEvidence ==
    \A p \in subdomains :
        (Returned(p) /\ finding[p].takeover_status = "SAFE")
            => Range(finding[p].evidence) \cap SignalEvidence = {}

\* C5: a scored finding with confidence below 20 is UNLIKELY exactly when its
\* confidence is positive and a provider is known, and SAFE otherwise.
C5_UnlikelyIffPositiveAndProvider ==
    \A p \in subdomains :
        (Scored(p) /\ finding[p].confidence < 20) =>
            LET known == finding[p].confidence > 0 /\ finding[p].provider # None
            IN  /\ (finding[p].takeover_status = "UNLIKELY") <=> known
                /\ (finding[p].takeover_status = "SAFE") <=> ~known

\* the signal contributions minus the penalties of the table of stage 8, from
\* the signals the finding records
SignalSum(f, l) ==
    LET config == ConfigOf(f.provider)
    IN  (IF f.ns_takeover THEN 50 ELSE 0)
      + (IF l.nxdomain THEN 40 ELSE 0)
      + Min(35 * Len(l.chain_dangling), 70)
      + (IF BestStatus(f) \in config.status_codes THEN 20 ELSE 0)
      + (IF config.error_patterns /\ BodyHasError(f.response_body) THEN 30 ELSE 0)
      + (IF config.claimed_indicators /\ ~BodyHasClaimed(f.response_body) THEN 10 ELSE 0)
      - (IF config.claimed_indicators /\ BodyHasClaimed(f.response_body) THEN 15 ELSE 0)
      + (IF f.ssl_mismatch THEN 15 ELSE 0)
      + (IF f.dangling_a_record /\ ~f.is_live THEN 15 ELSE 0)
      + (IF ~f.is_live /\ l.nxdomain THEN 10 ELSE 0)
      - (IF l.hw THEN 20 ELSE 0)

\* the can_takeover rule applies to the finding
CapApplies(f) == ~ConfigOf(f.provider).can_takeover /\ ~f.ns_takeover

\* C6: the confidence of a scored finding is the sum of the contributions minus
\* the penalties, clamped once to [0,100], then capped by the can_takeover rule.
C6_ConfidenceIsClampedSum ==
    \A p \in subdomains :
        Scored(p) =>
            LET clamped == Max(0, Min(100, SignalSum(finding[p], loc[p])))
            IN  finding[p].confidence =
                    IF CapApplies(finding[p]) THEN Min(clamped, 30) ELSE clamped

\* C7: with a provider whose can_takeover is false and no NS delegation signal
\* the confidence is at most 30 and the verdict at most POSSIBLE, and the cap is
\* noted in the evidence whenever the confidence before it exceeded 30; with
\* ns_takeover the confidence is left as it was and no cap is noted.
C7_CanTakeoverCap ==
    \A p \in subdomains :
        (Scored(p) /\ ~ConfigOf(finding[p].provider).can_takeover) =>
            LET f == finding[p]
            IN  /\ ~f.ns_takeover =>
                      /\ f.confidence <= 30
                      /\ f.takeover_status \in {"POSSIBLE", "UNLIKELY", "SAFE"}
                      /\ loc[p].original_conf > 30 => "V_CAPPED" \in Range(f.evidence)
                /\ f.ns_takeover =>
                      /\ f.confidence = loc[p].original_conf
                      /\ "V_CAPPED" \notin Range(f.evidence)

C7_Witness ==
    \E p \in subdomains :
        /\ Scored(p) /\ finding[p].provider = "cloudflare" /\ ~finding[p].ns_takeover
        /\ loc[p].original_conf = 60 /\ finding[p].confidence = 30
        /\ finding[p].takeover_status = "POSSIBLE"
        /\ "V_CAPPED" \in Range(finding[p].evidence)

\* C8: with wildcard DNS detected the confidence before the can_takeover cap is
\* max(0, c - 20), c being the confidence the same signals score without
\* wildcard (so it lies between c - 20 and c), and the evidence has the
\* wildcard-suppression entry iff wildcard was detected.
C8_WildcardSuppression ==
    \A p \in subdomains :
        Scored(p) =>
            LET c == loc[p].raw
                cw == IF loc[p].hw THEN Max(0, c - 20) ELSE c
            IN  /\ finding[p].confidence = IF CapApplies(finding[p]) THEN Min(cw, 30) ELSE cw
                /\ loc[p].original_conf = cw
                /\ c - 20 <= cw /\ cw <= c
                /\ ("V_WILDCARD" \in Range(finding[p].evidence)) <=> loc[p].hw

C8_Witness ==
    \E p \in subdomains :
        /\ Scored(p) /\ loc[p].hw /\ loc[p].raw = 15 /\ finding[p].confidence = 0
        /\ "V_WILDCARD" \in Range(finding[p].evidence)

\* C9: DNSResolver.check_wildcard is invoked at most once during one scan.
C9_WildcardCheckedOnce == wildcard_calls <= 1

C9_Witness ==
    /\ wildcard_calls = 1
    /\ Cardinality({p \in subdomains : Scored(p)}) >= 2

\* C10: every chain resolve_cname returns has at most 5 entries.
C10_ChainAtMostFive ==
    rq.state = "done" => Len(rq.result.chain) <= 5

\* C11: every chain resolve_cname returns has pairwise distinct entries, also
\* when the aliases form a cycle (on the dig single-hop walk and on the
\* in-process resolver walk).
C11_ChainEntriesDistinct ==
    rq.state = "done" =>
        \A i, j \in 1..Len(rq.result.chain) :
            i # j => rq.result.chain[i] # rq.result.chain[j]

StrongVerdicts == {"CONFIRMED", "HIGHLY_LIKELY", "LIKELY"}

\* C12: a returned finding with verdict CONFIRMED, HIGHLY_LIKELY or LIKELY has
\* a non-empty verification_steps list, which is the dead-nameserver
\* registration steps when ns_takeover is true and the provider-resource steps
\* (the provider's console, then its resource, pointed at the CNAME)
\* otherwise; a finding with any other verdict has an empty list.
C12_VerificationSteps ==
    \A p \in subdomains :
        Returned(p) =>
            LET f == finding[p]
                steps == f.verification_steps
            IN  /\ f.takeover_status \in StrongVerdicts =>
                      /\ Len(steps) = 4
                      /\ f.ns_takeover =>
                            steps[1] = <<"Register the dead nameserver domain", "">>
                      /\ ~f.ns_takeover =>
                            /\ steps[1] = <<"Navigate to", ConfigOf(f.provider).takeover_url>>
                            /\ steps[2] = <<"Create a new", ConfigOf(f.provider).verification_method>>
                            /\ steps[3] = <<"Point it to the CNAME:", f.cname>>
                /\ f.takeover_status \notin StrongVerdicts => steps = <<>>

C12_Witness ==
    \E p \in subdomains :
        /\ Scored(p) /\ finding[p].takeover_status = "CONFIRMED"
        /\ ~finding[p].ns_takeover
        /\ finding[p].verification_steps[1] = <<"Navigate to", "https://s3.console.aws.amazon.com">>

C12_WitnessNs ==
    \E p \in subdomains :
        /\ Scored(p) /\ finding[p].takeover_status = "LIKELY" /\ finding[p].ns_takeover
        /\ finding[p].verification_steps = NsSteps

\* C13: when the call awaited at a stage of analyze_subdomain raises, the
\* call returns (the exception does not leave it) a finding with verdict
\* ERROR whose other fields are what they were before the failure, whose
\* confidence is 0, and whose evidence is the evidence gathered so far followed
\* by one "Analysis error" entry that carries at most the first 100 characters
\* of the message.
C13_ErrorKeepsFinding ==
    [][\A p \in subdomains :
          (pc[p] \in RaiseStages /\ loc'[p].outcome = "error") =>
              /\ pc'[p] = "returned"
              /\ finding'[p] = [finding[p] EXCEPT
                                    !.takeover_status = "ERROR",
                                    !.evidence = finding[p].evidence \o <<"ANALYSIS_ERROR">>]
              /\ finding'[p].confidence = 0
              /\ loc'[p].error_len = IF loc'[p].message_len > 100 THEN 100
                                     ELSE loc'[p].message_len]_vars

C13_Witness ==
    \E p \in subdomains :
        /\ Returned(p) /\ loc[p].outcome = "error"
        /\ finding[p].takeover_status = "ERROR" /\ finding[p].confidence = 0
        /\ finding[p].cname # None /\ finding[p].is_live
        /\ Len(finding[p].evidence) >= 3
        /\ loc[p].message_len > 100 /\ loc[p].error_len = 100

\* C14: the list analyze_subdomains returns holds exactly one finding for each
\* hostname of the scan and nothing else, also when pipelines ended in ERROR.
C14_OneFindingPerHostname ==
    scan = "gathered" =>
        /\ Len(valid_findings) = Cardinality(subdomains)
        /\ \A p \in subdomains :
              Cardinality({i \in 1..Len(valid_findings) : valid_findings[i] = p}) = 1

C14_Witness ==
    /\ scan = "gathered"
    /\ \E p, q \in subdomains :
          /\ finding[p].takeover_status = "ERROR"
          /\ finding[q].takeover_status = "HIGHLY_LIKELY"
          /\ {p, q} \subseteq Range(valid_findings)

\* the pipelines that have started analyze_subdomain and not left bounded_analyze
InFlight == {p \in subdomains : pc[p] \in InFlightStages \cup {"returned"}}

\* C15: at every moment the number of pipelines that have started and not yet
\* finished is at most the configured concurrency (args.threads).
C15_AtMostThreadsInFlight ==
    /\ Cardinality(InFlight) <= threads
    /\ semaphore >= 0

C15_Witness ==
    /\ Cardinality(InFlight) = threads
    /\ \E p \in subdomains : pc[p] = "queued"
    /\ \E p \in subdomains : pc[p] = "http"

\* C17: when the scan is interrupted, every pipeline cancelled in flight has
\* produced a finding with verdict ERROR and evidence "cancelled", and that
\* finding is in the scan's output.
C17_CancelledFindingsReported ==
    scan = "interrupted" =>
        \A p \in subdomains :
            (pc[p] = "cancelled" /\ loc[p].outcome = "cancelled") =>
                /\ finding[p].takeover_status = "ERROR"
                /\ "cancelled" \in Range(finding[p].evidence)
                /\ p \in Range(valid_findings)

\* C16: however many tasks call RateLimiter.wait concurrently, at most
\* calls_per_second calls return within any one-second window, and two
\* consecutive returns are at least 1/calls_per_second apart.
C16_RateIsBounded ==
    rl.state = "on" =>
        /\ \A i, j \in 1..Len(rl.returns) :
              j - i >= CallsPerSecond => rl.returns[j] - rl.returns[i] >= Second
        /\ \A i \in 1..(Len(rl.returns) - 1) :
              rl.returns[i + 1] - rl.returns[i] >= MinInterval

\* analyze_subdomain returned the finding of p without having caught an exception
Analysed(p) == Returned(p) /\ loc[p].outcome # "error"

\* Scenario 1: the only DNS data is a one-link CNAME to a missing S3 bucket
\* (NXDOMAIN), the HTTP probe fails, there is no certificate and no wildcard
ScenarioOne(p) ==
    /\ Analysed(p)
    /\ finding[p].cname_chain = <<"gone.s3.amazonaws.com">>
    /\ finding[p].a_records = "none" /\ finding[p].ns_records = <<>>
    /\ ~finding[p].is_live
    /\ ~finding[p].ssl_mismatch /\ finding[p].ssl_cert_cn = None
    /\ ~loc[p].hw

\* C18 as stated: in scenario 1 the finding has provider aws_s3, confidence
\* exactly 50, verdict LIKELY and verification steps naming the S3 console.
C18_ScenarioOneAsStated ==
    \A p \in subdomains :
        ScenarioOne(p) =>
            /\ finding[p].provider = "aws_s3"
            /\ finding[p].confidence = 50
            /\ finding[p].takeover_status = "LIKELY"
            /\ Len(finding[p].verification_steps) = 4
            /\ finding[p].verification_steps[1] =
                    <<"Navigate to", "https://s3.console.aws.amazon.com">>

\* C18 amended: in scenario 1 the finding has provider aws_s3, confidence
\* exactly 60 (40 for NXDOMAIN, 10 for the absent claimed-site marker, 10 for
\* no HTTP with NXDOMAIN), verdict HIGHLY_LIKELY and verification steps naming
\* the S3 console.
C18_ScenarioOne ==
    \A p \in subdomains :
        ScenarioOne(p) =>
            /\ finding[p].provider = "aws_s3"
            /\ finding[p].confidence = 60
            /\ finding[p].takeover_status = "HIGHLY_LIKELY"
            /\ Len(finding[p].verification_steps) = 4
            /\ finding[p].verification_steps[1] =
                    <<"Navigate to", "https://s3.console.aws.amazon.com">>

C18_Witness ==
    \E p \in subdomains :
        /\ ScenarioOne(p)
        /\ "CNAME_NXDOMAIN" \in Range(finding[p].evidence)
        /\ "V_NO_HTTP_NXDOMAIN" \in Range(finding[p].evidence)

\* Scenario 3: no CNAME, an NS record pointing to a nameserver that is
\* NXDOMAIN, no wildcard; the A records and the HTTP and TLS probes are free
ScenarioThree(p) ==
    /\ Analysed(p)
    /\ finding[p].cname = None
    /\ finding[p].ns_records = <<"ns1.deadzone.invalid">>
    /\ ~loc[p].hw

\* the response body carries a claimed-site marker of the finding's provider
ClaimedMarker(f) ==
    ConfigOf(f.provider).claimed_indicators /\ BodyHasClaimed(f.response_body)

C19_WitnessLikely ==
    \E p \in subdomains :
        /\ ScenarioThree(p) /\ ~ClaimedMarker(finding[p])
        /\ finding[p].confidence = 50 /\ finding[p].takeover_status = "LIKELY"
        /\ finding[p].verification_steps = NsSteps

\* C20: a hostname with no CNAME, no dead NS delegation and no A record in a
\* cloud range gets verdict SAFE and confidence 0 from the early exit, and
\* nothing is probed for it after the DNS stage: no HTTP probe, no TLS probe,
\* no wildcard check; until the DNS stage is over nothing is probed either.
C20_EarlyExit ==
    \A p \in subdomains :
        /\ (Analysed(p) /\ finding[p].cname = None /\ ~finding[p].ns_takeover
                /\ finding[p].a_records # "cloud") =>
              /\ loc[p].outcome = "early_exit"
              /\ finding[p].takeover_status = "SAFE"
              /\ finding[p].confidence = 0
              /\ loc[p].probed = {}
        /\ pc[p] \in {"queued", "dns", "ns"} => loc[p].probed = {}

C20_Witness ==
    \E p \in subdomains :
        /\ pc[p] = "done" /\ loc[p].outcome = "early_exit"
        /\ finding[p].a_records = "other" /\ finding[p].ns_records = <<"ns1.example.net">>
        /\ finding[p].takeover_status = "SAFE" /\ loc[p].probed = {}

\* the classifications of a lookup that make a target dangling
Dangling == {"NXDOMAIN", "NO_NAMESERVERS"}

\* the dangling links of a chain other than its head, in chain order
IntermediateDangling(chain) ==
    SelectSeqIdx(chain, {chain[i] : i \in {j \in 2..Len(chain) : ZoneClass[chain[j]] \in Dangling}}
                            \ {chain[1]})

\* the number of entries of the sequence s that equal x
Count(s, x) == Cardinality({i \in 1..Len(s) : s[i] = x})

\* the confidence validate_takeover holds before the wildcard check when n
\* chain links are counted and no claimed-site marker is present
ScoreWithChainLinks(f, l, n) ==
    LET config == ConfigOf(f.provider)
    IN  (IF f.ns_takeover THEN 50 ELSE 0)
      + (IF l.nxdomain THEN 40 ELSE 0)
      + Min(35 * n, 70)
      + (IF BestStatus(f) \in config.status_codes THEN 20 ELSE 0)
      + (IF config.error_patterns /\ BodyHasError(f.response_body) THEN 30 ELSE 0)
      + (IF config.claimed_indicators THEN 10 ELSE 0)
      + (IF f.ssl_mismatch THEN 15 ELSE 0)
      + (IF f.dangling_a_record /\ ~f.is_live THEN 15 ELSE 0)
      + (IF ~f.is_live /\ l.nxdomain THEN 10 ELSE 0)

\* C21: the dangling chain links other than the head contribute +35 each, at
\* most +70 together, and the head contributes only through the +40 NXDOMAIN
\* signal: it is never counted (nor listed) as a chain link.
C21_HeadNotCountedAsLink ==
    \A p \in subdomains :
        Scored(p) =>
            LET f == finding[p]
                n == Len(IntermediateDangling(f.cname_chain))
            IN  /\ Count(f.evidence, "V_CHAIN") = n
                /\ ~BodyHasClaimed(f.response_body) =>
                      loc[p].raw = ScoreWithChainLinks(f, loc[p], n)

\* C23: within one scan every scored finding is scored with the same wildcard
\* value, the result of the single check_wildcard call: no pipeline reads the
\* memo before that call has set it.
C23_OneWildcardValue ==
    /\ \A p, q \in subdomains : (Scored(p) /\ Scored(q)) => loc[p].hw = loc[q].hw
    /\ \A p \in subdomains :
          (Scored(p) /\ \A q \in subdomains : pc[q] # "wildcard") => loc[p].hw = has_wildcard

\* C28: in every returned finding dangling_a_record implies that an A record
\* lies in a cloud range and that the host is not live.
C28_DanglingAImpliesNotLive ==
    \A p \in subdomains :
        (Returned(p) /\ finding[p].dangling_a_record) =>
            (finding[p].a_records = "cloud" /\ ~finding[p].is_live)

\* the scan produced a result: run returned a ScanResult
ProducedResult == scan = "reported"

\* the scan could not run: no target, no subdomains, or a scanner error
CouldNotRun == scan \in {"no_target", "no_subdomains", "scanner_error"}

\* some finding of the result is CONFIRMED or HIGHLY_LIKELY
HasCritical ==
    \E i \in 1..Len(valid_findings) :
        finding[valid_findings[i]].takeover_status \in {"CONFIRMED", "HIGHLY_LIKELY"}

C22_WitnessOthers == exit_code \in {0, 1, 130}

\* C24: the DNS cache is append-only: once the key holds a value no step
\* removes it or replaces it with a different value, whatever the interleaving
\* of the calls that missed the key, and a call that finds the key returns the
\* stored value without a backend query.
C24_CacheAppendOnly ==
    [][cache.state = "on" =>
          /\ cache.present => (cache'.present /\ cache'.value = cache.value)
          /\ \A c \in Resolves :
                (cache.present /\ cache.call[c].at = "idle" /\ cache'.call[c].at # "idle") =>
                    /\ cache'.call[c].at = "returned"
                    /\ cache'.call[c].result = cache.value
                    /\ cache'.queries = cache.queries]_vars

\* the half of C24 that holds: a call that finds the key returns the stored
\* value without a backend query
C24_HitsReturnStored ==
    [][cache.state = "on" =>
          \A c \in Resolves :
                (cache.present /\ cache.call[c].at = "idle" /\ cache'.call[c].at # "idle") =>
                    /\ cache'.call[c].at = "returned"
                    /\ cache'.call[c].result = cache.value
                    /\ cache'.queries = cache.queries]_vars

\* the host is <one label>.<base> for the wildcard name *.<base>, or is the
\* name itself
HostMatches(host, name) ==
    IF Len(name) >= 2 /\ name[1] = "*" /\ name[2] = "."
    THEN /\ Len(host) = Len(name)
         /\ host[1] \notin {".", "*"}
         /\ \A i \in 2..Len(name) : host[i] = name[i]
    ELSE host = name

\* C29: check_ssl_mismatch reports a mismatch iff the host matches no name of
\* the certificate (CN and SANs), a wildcard name *.foo.bar matching only
\* <one label>.foo.bar; a failed connection or an absent certificate yields
\* (false, none).
C29_SslMismatch ==
    tls.state = "done" =>
        IF tls.outcome \in {"failed", "no_cert", "empty_dict"}
        THEN tls.result.none /\ ~tls.result.mismatch
        ELSE LET names == Range(tls.cert.sans) \cup ({tls.cert.cn} \ {<<>>})
             IN  tls.result.mismatch <=> ~\E name \in names : HostMatches(tls.subdomain, name)

\* the part of C29 that holds: a failed connection or an absent certificate
\* yields (false, none)
C29_FailureIsNoMismatch ==
    (tls.state = "done" /\ tls.outcome \in {"failed", "no_cert", "empty_dict"}) =>
        (tls.result.none /\ ~tls.result.mismatch)

\* the stages after the NXDOMAIN check, the chain walk and the NS check
AfterNs == {"nxdomain", "chain", "http", "ssl", "wildcard", "returned", "done"}
AfterChain == {"http", "ssl", "wildcard", "returned", "done"}

\* C25: a target name counts as dangling exactly when its lookup is
\* classified NXDOMAIN or NO_NAMESERVERS: for the CNAME head (nxdomain), for
\* the chain links after the head, and for the nameservers; ns_takeover is
\* true iff at least one nameserver is dangling.
C25_DanglingClassification ==
    \A p \in subdomains :
        LET f == finding[p]
        IN  /\ (pc[p] \in AfterNs /\ loc[p].outcome # "error") =>
                  (f.ns_takeover <=> \E i \in 1..Len(f.ns_records) :
                                         ZoneClass[f.ns_records[i]] \in Dangling)
            /\ (pc[p] \in AfterChain /\ loc[p].outcome \notin {"error", "early_exit"}) =>
                  /\ loc[p].nxdomain <=> (f.cname # None /\ ZoneClass[f.cname] \in Dangling)
                  /\ \A i \in 2..Len(f.cname_chain) :
                        (f.cname_chain[i] \in Range(loc[p].chain_dangling))
                            <=> ZoneClass[f.cname_chain[i]] \in Dangling

\* a head answered with NoAnswer, a link that timed out, and nameservers of
\* which one has no reachable nameservers: only the last is dangling
C25_Witness ==
    \E p \in subdomains :
        /\ pc[p] \in AfterChain
        /\ Len(finding[p].cname_chain) = 3
        /\ ZoneClass[finding[p].cname_chain[1]] = "NOANSWER"
        /\ \E i \in 2..Len(finding[p].cname_chain) :
              ZoneClass[finding[p].cname_chain[i]] = "TIMEOUT"
        /\ \E i \in 2..Len(finding[p].cname_chain) :
              ZoneClass[finding[p].cname_chain[i]] = "NO_NAMESERVERS"
        /\ finding[p].ns_records = <<"ns1.example.net", "ns1.lame.invalid">>
        /\ finding[p].ns_takeover
        /\ ~loc[p].nxdomain
        /\ Len(loc[p].chain_dangling) = 1

\* some pattern of the provider is a case-insensitive substring of the name
Matches(provider, name) == PatternIn(provider, Lower(name))

\* the provider declared first among those matching the name, if any
IsFirstDeclared(result, name) ==
    \E k \in 1..Len(ProviderOrder) :
        /\ result = ProviderOrder[k]
        /\ Matches(ProviderOrder[k], name)
        /\ \A j \in 1..(k - 1) : ~Matches(ProviderOrder[j], name)

MatchesAny(name) == \E k \in 1..Len(ProviderOrder) : Matches(ProviderOrder[k], name)

\* C26: identify_provider(cname, chain) is the first-declared provider with a
\* pattern that is a case-insensitive substring of cname; if no provider
\* matches cname it is the first-declared provider matching the first link of
\* the chain that any provider matches; it is none when nothing matches or
\* cname is empty.
C26_IdentifyProvider ==
    \A p \in subdomains :
        pc[p] \in {"ns", "nxdomain", "chain", "http"} =>
            LET f == finding[p]
                chain == f.cname_chain
            IN  IF f.cname = None THEN f.provider = None
                ELSE IF MatchesAny(f.cname) THEN IsFirstDeclared(f.provider, f.cname)
                ELSE IF \E i \in 1..Len(chain) : MatchesAny(chain[i])
                THEN \E i \in 1..Len(chain) :
                        /\ IsFirstDeclared(f.provider, chain[i])
                        /\ \A j \in 1..(i - 1) : ~MatchesAny(chain[j])
                ELSE f.provider = None

\* a cname no provider matches, followed by a link in capitals that matches
\* github and a link that matches aws_s3 only
C26_Witness ==
    \E p \in subdomains :
        /\ pc[p] = "ns"
        /\ finding[p].cname_chain =
              <<"gone.example.net", "Site.GitHub.IO", "gone.s3.amazonaws.com">>
        /\ finding[p].provider = "github"

\* a cname that two providers match
C26_WitnessTwoProviders ==
    \E p \in subdomains :
        /\ pc[p] = "ns"
        /\ finding[p].cname = "site.github.io.s3.amazonaws.com"
        /\ finding[p].provider = "github"

\* the evidence entries the header-fingerprint stage writes
HeaderEvidence == {"HEADER_PROVIDER", "HEADER_DIFFERS"}

\* C27: the header-fingerprint stage sets finding.provider only when no
\* CNAME-derived provider exists; when a header fingerprint matches while a
\* CNAME-derived provider exists, provider stays as it was and the
\* fingerprint is recorded as one more evidence entry.
C27_HeaderStage ==
    [][\A p \in subdomains :
          (pc[p] = "http" /\ pc'[p] = "ssl") =>
              /\ finding[p].provider # None => finding'[p].provider = finding[p].provider
              /\ (finding[p].provider # None /\ finding'[p].header_fingerprint # None) =>
                    /\ Len(finding'[p].evidence) = Len(finding[p].evidence) + 1
                    /\ finding'[p].evidence[Len(finding'[p].evidence)] \in HeaderEvidence]_vars

\* the frame half of C27: a provider derived from the CNAME chain is never
\* changed, and without one the provider of the matching fingerprint is adopted
C27_ProviderKept ==
    [][\A p \in subdomains :
          (pc[p] = "http" /\ pc'[p] = "ssl") =>
              /\ finding[p].provider # None => finding'[p].provider = finding[p].provider
              /\ finding[p].provider = None =>
                    finding'[p].provider = finding'[p].header_fingerprint]_vars

\* the terminal states of a pipeline: early-exit SAFE, classified, or ERROR
TerminalOutcomes == {"early_exit", "no_provider", "scored", "error"}

\* every pipeline has ended in a terminal state and analyze_subdomains has
\* returned; every caller of the rate limiter has returned from wait()
Terminated ==
    IF rl.state = "on"
    THEN \A t \in Callers : rl.task[t].at = "returned"
    ELSE /\ scan = "gathered"
         /\ \A p \in subdomains : pc[p] = "done" /\ loc[p].outcome \in TerminalOutcomes

C30_WitnessLimiter ==
    /\ rl.state = "on"
    /\ NumCallers > CallsPerSecond
    /\ \A t \in Callers : rl.task[t].at = "returned"
    /\ \E i \in 1..Len(rl.returns) : rl.returns[i] > MaxTime

====
